---- MODULE Spec2Model ----
(***************************************************************************)
(* A model of the exhaustive Wordle solver of src/src/main.rs: the         *)
(* feedback generator (check), the candidate filter (filter_words), the    *)
(* recursive solver (best_guess, with its rayon map / reduce_with          *)
(* pipeline as a state machine) and the ranking driver (solve).           *)
(*                                                                         *)
(* A Word is a sequence of WORD_LENGTH one-letter strings.  A Fact is a    *)
(* record [letter, position, feedback]; position is the 0-based position   *)
(* of the source, so the letter of word w it speaks of is w[position + 1]. *)
(***************************************************************************)
EXTENDS Integers, Sequences, FiniteSets

VARIABLES
    words,        \* the word list handed to filter_words / best_guess / solve
    facts,        \* the fact list handed to filter_words / best_guess
    answer,       \* check's first argument
    guess,        \* check's second argument
    guess_words,  \* solve's list of opening guesses
    pc,           \* where the operation under way stands
    candidates,   \* best_guess's local: filter_words(words, facts)
    parts,        \* the rayon pipeline of best_guess: one entry per segment
    result,       \* the GuessResult best_guess returned
    maxdepth,     \* deepest best_guess frame entered so far (top level = 1)
    res_facts,    \* the Facts check returned
    filtered,     \* the Words filter_words returned
    ranking       \* the Vec<GuessResult> solve returned

vars == <<words, facts, answer, guess, guess_words, pc, candidates, parts,
          result, maxdepth, res_facts, filtered, ranking>>

-----------------------------------------------------------------------------
(* Program constants                                                       *)

\* The length of ASCII_LOWER.
NUM_CHARS == 26

WORD_LENGTH == 5

ASCII_LOWER ==
    <<"a", "b", "c", "d", "e", "f", "g", "h", "i", "j", "k", "l", "m", "n",
      "o", "p", "q", "r", "s", "t", "u", "v", "w", "x", "y", "z">>

Feedback == {"Correct", "Used", "NotUsed"}

-----------------------------------------------------------------------------
(* Bounds of the model and the inputs drawn within them                    *)

\* check's inputs: every word over the first NumLetters letters.
NumLetters == 2

\* Longest word list handed to the solver and the filter.
MaxWords == 4

\* Most facts of FactPool in an input fact list.
MaxFacts == 2

\* Longest list of opening guesses handed to solve.
MaxGuesses == 2

Letters == {ASCII_LOWER[i] : i \in 1..NumLetters}

AllWords == [1..WORD_LENGTH -> Letters]

W(a, b, c, d, e) == <<a, b, c, d, e>>

\* The dictionary the word lists are drawn from.  Guessing "apple" gets the
\* same feedback from "angle" and "ankle", guessing "angle" tells all the
\* others apart, and "glean" holds the letters of "angle" at other places.
Pool ==
    { W("a", "p", "p", "l", "e"), W("a", "n", "g", "l", "e"),
      W("a", "n", "k", "l", "e"), W("g", "l", "e", "a", "n") }

\* Every list of 1..n words of S, repeated words included.
ListsUpTo(S, n) == UNION {[1..k -> S] : k \in 1..n}

WordLists == ListsUpTo(Pool, MaxWords)

build_fact(f, l, p) == [letter |-> l, position |-> p, feedback |-> f]

-----------------------------------------------------------------------------
(* Feedback generator                                                      *)

\* <[char]>::contains
Contains(w, c) == \E i \in 1..Len(w) : w[i] = c

\* check_at with the Used and NotUsed branches taken for one another.
check_at_swapped(answ, gs, i) ==
    IF gs[i] = answ[i] THEN build_fact("Correct", gs[i], i - 1)
    ELSE IF Contains(answ, gs[i]) THEN build_fact("NotUsed", gs[i], i - 1)
    ELSE build_fact("Used", gs[i], i - 1)

\* check_at without the Used branch: a letter at a wrong place is NotUsed.
check_at_no_used(answ, gs, i) ==
    IF gs[i] = answ[i] THEN build_fact("Correct", gs[i], i - 1)
    ELSE build_fact("NotUsed", gs[i], i - 1)

\* The fact check pushes for position i (1-based here, i - 1 in the fact).
check_at(answ, gs, i) ==
    IF gs[i] = answ[i] THEN build_fact("Correct", gs[i], i - 1)
    ELSE IF Contains(answ, gs[i]) THEN build_fact("Used", gs[i], i - 1)
    ELSE build_fact("NotUsed", gs[i], i - 1)

RECURSIVE check_loop(_, _, _, _)
\* The for loop of check from iteration i on, res being what was pushed.
check_loop(answ, gs, i, res) ==
    IF i > WORD_LENGTH THEN res
    ELSE check_loop(answ, gs, i + 1, Append(res, check_at(answ, gs, i)))

check(answ, gs) == check_loop(answ, gs, 1, <<>>)

-----------------------------------------------------------------------------
(* Candidate filter                                                        *)

\* rules_out whose Used arm does not ask that w hold the letter.
rules_out_lax(w, f) ==
    CASE f.feedback = "Correct" -> w[f.position + 1] # f.letter
      [] f.feedback = "Used"    -> w[f.position + 1] = f.letter
      [] f.feedback = "NotUsed" -> Contains(w, f.letter)

\* rules_out whose Used arm does not ask that the letter be elsewhere.
rules_out_any_place(w, f) ==
    CASE f.feedback = "Correct" -> w[f.position + 1] # f.letter
      [] f.feedback = "Used"    -> ~Contains(w, f.letter)
      [] f.feedback = "NotUsed" -> Contains(w, f.letter)

\* The closure of facts.iter().any(..): fact f rules word w out.
rules_out(w, f) ==
    CASE f.feedback = "Correct" -> w[f.position + 1] # f.letter
      [] f.feedback = "Used"    ->
            w[f.position + 1] = f.letter \/ ~Contains(w, f.letter)
      [] f.feedback = "NotUsed" -> Contains(w, f.letter)

\* The closure of words.iter().filter(..): no fact rules w out.
keeps(w, fs) == ~ \E k \in 1..Len(fs) : rules_out(w, fs[k])

filter_words(ws, fs) == SelectSeq(ws, LAMBDA w : keeps(w, fs))

-----------------------------------------------------------------------------
(* Exhaustive guess solver: what a call of best_guess comes to             *)

GuessResult(g, n, c) == [guess |-> g, guesses |-> n, num_candidates |-> c]

NoResult == GuessResult(<<>>, 0, 0)

Max(a, b) == IF a >= b THEN a ELSE b

\* How a call ends: status "ok" with the GuessResult gr it returns, "panic"
\* (the panic!() of the empty candidate list unwinds through the callers) or
\* "overflow" (the recursion never returns and the thread runs out of stack);
\* depth is the number of best_guess frames the call stacked at its deepest.
Outcome(st, gr, d) == [status |-> st, gr |-> gr, depth |-> d]

\* reduce_op with <= for <: of two results of equal guesses the later wins.
reduce_op_last(best_guess_, gr) ==
    IF gr.guesses <= best_guess_.guesses THEN gr ELSE best_guess_

\* The closure given to reduce_with.
reduce_op(best_guess_, gr) ==
    IF gr.guesses < best_guess_.guesses THEN gr ELSE best_guess_

\* new_facts after new_facts.append(&mut prev_facts).
new_facts(w, g, fs) == check(w, g) \o fs

\* cost_result without the 1 of the guess g itself.
cost_result_no_first(g, gs, n) == GuessResult(g, gs, n)

\* The GuessResult the map closure builds from the folded sum gs.
cost_result(g, gs, n) == GuessResult(g, 1 + gs, n)

RECURSIVE best_guess(_, _)
RECURSIVE fold_secrets(_, _, _, _, _)
RECURSIVE reduce_from(_, _, _, _)

\* The recursive call best_guess(&candidates, &new_facts).  When the new
\* facts rule out none of two or more candidates, the callee's candidate
\* list is the caller's own; it then meets the same pair (w, g), whose facts
\* it already holds, and calls itself with a fact list that filters alike,
\* and so on without end.  Such a call never returns: "overflow".
recurse(cands, nf) ==
    IF Len(cands) >= 2 /\ filter_words(cands, nf) = cands
    THEN Outcome("overflow", NoResult, 0)
    ELSE best_guess(cands, nf)

\* candidates.iter().map(..).fold(0, ..) from the k-th secret on.  The
\* iterator is lazy, so the first call that does not return ends the fold.
\* acc.sum is the sum so far, acc.depth the deepest callee so far.
fold_secrets(cands, fs, g, k, acc) ==
    IF k > Len(cands) THEN acc
    ELSE LET item == recurse(cands, new_facts(cands[k], g, fs)) IN
         IF item.status # "ok"
         THEN [status |-> item.status, sum |-> 0, depth |-> 0]
         ELSE fold_secrets(cands, fs, g, k + 1,
                  [status |-> "ok", sum |-> acc.sum + item.gr.guesses,
                   depth |-> Max(acc.depth, item.depth)])

\* The closure of par_iter().map(..): the cost of guessing g, as an Outcome
\* whose depth counts the frames below the caller's.
guess_cost(cands, fs, g) ==
    LET s == fold_secrets(cands, fs, g, 1,
                 [status |-> "ok", sum |-> 0, depth |-> 0]) IN
    IF s.status # "ok" THEN Outcome(s.status, NoResult, 0)
    ELSE Outcome("ok", cost_result(g, s.sum, Len(cands)), s.depth)

\* map(..).reduce_with(..) of a nested call, taken in list order from the
\* k-th candidate on, acc being the Outcome so far.  A nested call's caller
\* reads only .guesses of what it returns, the same for every grouping of
\* the reduction; the top-level call's pipeline is the state machine below.
reduce_from(cands, fs, k, acc) ==
    IF k > Len(cands) THEN acc
    ELSE LET c == guess_cost(cands, fs, cands[k]) IN
         IF c.status # "ok" THEN c
         ELSE reduce_from(cands, fs, k + 1,
                  IF k = 1 THEN c
                  ELSE Outcome("ok", reduce_op(acc.gr, c.gr),
                               Max(acc.depth, c.depth)))

best_guess(ws, fs) ==
    LET cands == filter_words(ws, fs) IN
    IF Len(cands) = 1
    THEN Outcome("ok", GuessResult(cands[1], 1, Len(cands)), 1)
    ELSE IF cands = <<>> THEN Outcome("panic", NoResult, 1)
    ELSE LET r == reduce_from(cands, fs, 1, Outcome("ok", NoResult, 0)) IN
         IF r.status # "ok" THEN r ELSE Outcome("ok", r.gr, 1 + r.depth)

-----------------------------------------------------------------------------
(* Ranking mode                                                            *)

RECURSIVE SumTo(_, _)
\* f[1] + ... + f[n]
SumTo(f, n) == IF n = 0 THEN 0 ELSE f[n] + SumTo(f, n - 1)

\* rank_result without the 1 of the opening guess itself.
rank_result_no_first(g, gs, gws) == GuessResult(g, gs, Len(gws))

\* The GuessResult solve builds for one opening guess from the folded sum.
rank_result(g, gs, gws) == GuessResult(g, 1 + gs, Len(gws))

\* .fold(0, |sum, item| sum + item.guesses) over the Outcomes items of the
\* calls of best_guess, and the GuessResult built from the sum.  The first
\* call that does not return ends solve as it ended.
fold_items(items, g, gws) ==
    LET bad == {k \in 1..Len(items) : items[k].status # "ok"} IN
    IF bad # {}
    THEN Outcome(items[CHOOSE k \in bad : \A j \in bad : k <= j].status,
                 NoResult, 0)
    ELSE Outcome("ok",
             rank_result(g, SumTo([k \in 1..Len(items) |-> items[k].gr.guesses],
                                  Len(items)), gws),
             0)

\* The closure of guesses.iter().map(..) of solve, for opening guess g.
solve_item(ws, gws, g) ==
    fold_items([k \in 1..Len(ws) |-> best_guess(ws, check(ws[k], g))], g, gws)

-----------------------------------------------------------------------------
(* The fact lists handed to the filter and the solver                      *)

\* Hand-written facts, as factify / verbose build them.  Of the words of
\* Pool the first rules out "glean", the second "apple", the third "apple"
\* (no "n") and "glean" ("n" at that place), the fourth "apple" and "glean",
\* and the last all of them.
FactPool ==
    << build_fact("Correct", "a", 0), build_fact("NotUsed", "p", 0),
       build_fact("Used", "n", 4),    build_fact("Correct", "n", 1),
       build_fact("NotUsed", "a", 0) >>

RECURSIVE PickFacts(_, _)
\* The facts of FactPool whose index is in S, from index k on, in pool order.
PickFacts(S, k) ==
    IF k > Len(FactPool) THEN <<>>
    ELSE IF k \in S THEN <<FactPool[k]>> \o PickFacts(S, k + 1)
    ELSE PickFacts(S, k + 1)

\* The fact lists handed in: up to MaxFacts hand-written facts, or the
\* feedback of one guess of Pool against one secret of Pool.
FactLists ==
    { PickFacts(S, 1) :
        S \in {T \in SUBSET (1..Len(FactPool)) : Cardinality(T) <= MaxFacts} }
    \cup { check(a, g) : a \in Pool, g \in Pool }

-----------------------------------------------------------------------------
(* Values of the variables an operation has not set                        *)

Idle ==
    /\ candidates = <<>>
    /\ parts = <<>>
    /\ result = NoResult
    /\ maxdepth = 0
    /\ res_facts = <<>>
    /\ filtered = <<>>
    /\ ranking = <<>>

NoWords == words = <<>> /\ facts = <<>> /\ guess_words = <<>>

NoPair == answer = <<>> /\ guess = <<>>

-----------------------------------------------------------------------------
(* check(answer, guess), applied to every pair of words over Letters       *)

InitCheck ==
    /\ answer \in AllWords
    /\ guess \in AllWords
    /\ pc = "idle"
    /\ NoWords
    /\ Idle

DoCheck ==
    /\ pc = "idle"
    /\ res_facts' = check(answer, guess)
    /\ pc' = "checked"
    /\ UNCHANGED <<words, facts, answer, guess, guess_words, candidates, parts,
                   result, maxdepth, filtered, ranking>>

SpecCheck == InitCheck /\ [][DoCheck]_vars

-----------------------------------------------------------------------------
(* filter_words(words, facts), applied to word lists and fact lists        *)

InitFilter ==
    /\ words \in WordLists
    /\ facts \in FactLists
    /\ guess_words = <<>>
    /\ pc = "idle"
    /\ NoPair
    /\ Idle

DoFilter ==
    /\ pc = "idle"
    /\ filtered' = filter_words(words, facts)
    /\ pc' = "filtered"
    /\ UNCHANGED <<words, facts, answer, guess, guess_words, candidates, parts,
                   result, maxdepth, res_facts, ranking>>

SpecFilter == InitFilter /\ [][DoFilter]_vars

-----------------------------------------------------------------------------
(* best_guess(words, facts): the top-level call, step by step.  rayon runs *)
(* the map closure on the candidates in any order and on any thread, and   *)
(* reduce_with combines results of neighbouring segments of the list, left *)
(* operand first, in a grouping it does not specify.  parts is the list of *)
(* segments: a candidate whose cost is still to be computed, or a reduced  *)
(* result of consecutive candidates.                                       *)

Init ==
    /\ words \in WordLists
    /\ facts \in FactLists
    /\ guess_words = <<>>
    /\ pc = "idle"
    /\ NoPair
    /\ Idle

Todo(g, n) == [done |-> FALSE, gr |-> GuessResult(g, 0, n)]

Done(gr) == [done |-> TRUE, gr |-> gr]

\* OnEmpty returning a default GuessResult instead of aborting.
OnEmpty_default ==
    /\ pc' = "done"
    /\ result' = NoResult

\* What best_guess does with an empty candidate list: panic!().
OnEmpty ==
    /\ pc' = "panic"
    /\ result' = result

\* OnSingle going through the search like any longer candidate list.
OnSingle_search(cands) ==
    /\ pc' = "par"
    /\ parts' = [i \in 1..Len(cands) |-> Todo(cands[i], Len(cands))]
    /\ result' = result

\* What best_guess does with a single candidate.
OnSingle(cands) ==
    /\ pc' = "done"
    /\ parts' = <<>>
    /\ result' = GuessResult(cands[1], 1, Len(cands))

\* Entry of best_guess: filter, then the three branches.
Enter ==
    /\ pc = "idle"
    /\ LET cands == filter_words(words, facts) IN
        /\ candidates' = cands
        /\ maxdepth' = 1
        /\ IF Len(cands) = 1 THEN OnSingle(cands)
           ELSE IF cands = <<>> THEN OnEmpty /\ parts' = <<>>
           ELSE /\ pc' = "par"
                /\ parts' = [i \in 1..Len(cands) |->
                                Todo(cands[i], Len(cands))]
                /\ result' = result
    /\ UNCHANGED <<words, facts, answer, guess, guess_words, res_facts,
                   filtered, ranking>>

\* What the pipeline does with the Outcome c of the map closure run for
\* segment i.  A nested call that does not return ends the computation.
MapTake(i, c) ==
    IF c.status = "ok"
    THEN /\ parts' = [parts EXCEPT ![i] = Done(c.gr)]
         /\ maxdepth' = Max(maxdepth, 1 + c.depth)
         /\ pc' = pc
    ELSE /\ parts' = <<>>
         /\ maxdepth' = maxdepth
         /\ pc' = c.status

\* One run of the map closure, for the candidate of segment i.
MapItem(i) ==
    /\ pc = "par"
    /\ ~parts[i].done
    /\ MapTake(i, guess_cost(candidates, facts, parts[i].gr.guess))
    /\ UNCHANGED <<words, facts, answer, guess, guess_words, candidates,
                   result, res_facts, filtered, ranking>>

\* One application of the reduce_with closure, to segments k and k + 1.
ReducePair(k) ==
    /\ pc = "par"
    /\ parts[k].done
    /\ parts[k + 1].done
    /\ parts' = SubSeq(parts, 1, k - 1)
                  \o <<Done(reduce_op(parts[k].gr, parts[k + 1].gr))>>
                  \o SubSeq(parts, k + 2, Len(parts))
    /\ UNCHANGED <<words, facts, answer, guess, guess_words, pc, candidates,
                   result, maxdepth, res_facts, filtered, ranking>>

\* .unwrap() of the reduced value: best_guess returns.
Unwrap ==
    /\ pc = "par"
    /\ Len(parts) = 1
    /\ parts[1].done
    /\ result' = parts[1].gr
    /\ pc' = "done"
    /\ UNCHANGED <<words, facts, answer, guess, guess_words, candidates,
                   parts, maxdepth, res_facts, filtered, ranking>>

Next ==
    \/ Enter
    \/ \E i \in 1..Len(parts) : MapItem(i)
    \/ \E k \in 1..(Len(parts) - 1) : ReducePair(k)
    \/ Unwrap

Spec == Init /\ [][Next]_vars

-----------------------------------------------------------------------------
(* solve(words, guess_words), applied to word lists and guess lists        *)

GuessLists == ListsUpTo(Pool, MaxGuesses)

InitSolve ==
    /\ words \in WordLists
    /\ \/ guess_words \in GuessLists
       \/ guess_words = words
    /\ facts = <<>>
    /\ pc = "idle"
    /\ NoPair
    /\ Idle

\* What solve does with the Outcome r of one run of its map closure.
SolveTake(r) ==
    IF r.status = "ok"
    THEN /\ ranking' = Append(ranking, r.gr)
         /\ pc' = "solving"
    ELSE /\ ranking' = <<>>
         /\ pc' = r.status

\* The iterator of solve yields its next GuessResult: the map closure runs
\* on the guess that follows those already ranked.
SolveNext ==
    /\ pc \in {"idle", "solving"}
    /\ Len(ranking) < Len(guess_words)
    /\ SolveTake(solve_item(words, guess_words,
                             guess_words[Len(ranking) + 1]))
    /\ UNCHANGED <<words, facts, answer, guess, guess_words, candidates, parts,
                   result, maxdepth, res_facts, filtered>>

\* collect() has taken the last GuessResult: solve returns.
SolveCollect ==
    /\ pc \in {"idle", "solving"}
    /\ Len(ranking) = Len(guess_words)
    /\ pc' = "solved"
    /\ UNCHANGED <<words, facts, answer, guess, guess_words, candidates, parts,
                   result, maxdepth, res_facts, filtered, ranking>>

NextSolve == SolveNext \/ SolveCollect

SpecSolve == InitSolve /\ [][NextSolve]_vars

-----------------------------------------------------------------------------
(* Claims about check                                                      *)

\* The i-th smallest element of the set of integers S.
Nth(S, i) == CHOOSE x \in S : Cardinality({y \in S : y <= x}) = i

\* The feedback the contract gives position i of guess gs against secret s.
KindOf(s, gs, i) ==
    IF gs[i] = s[i] THEN "Correct"
    ELSE IF \E j \in 1..WORD_LENGTH : s[j] = gs[i] THEN "Used"
    ELSE "NotUsed"

\* C5: check(s, g) returns exactly L facts, the i-th being (g[i], i, kind)
\* with kind Exact if g[i] = s[i], else Present if s holds g[i] anywhere,
\* else Absent; and check(s, s) is all Exact.
C5_CheckFacts ==
    pc = "checked" =>
        /\ Len(res_facts) = WORD_LENGTH
        /\ \A i \in 1..WORD_LENGTH :
              /\ res_facts[i].letter = guess[i]
              /\ res_facts[i].position = i - 1
              /\ res_facts[i].feedback = KindOf(answer, guess, i)
        /\ (answer = guess =>
              \A i \in 1..WORD_LENGTH : res_facts[i].feedback = "Correct")

\* A letter the secret holds once is guessed twice, at two wrong places, and
\* check has marked both occurrences Used.
C5_Witness ==
    /\ pc = "checked"
    /\ \E i, j \in 1..WORD_LENGTH :
          /\ i < j
          /\ guess[i] = guess[j]
          /\ Cardinality({k \in 1..WORD_LENGTH : answer[k] = guess[i]}) = 1
          /\ res_facts[i].feedback = "Used"
          /\ res_facts[j].feedback = "Used"

-----------------------------------------------------------------------------
(* Claims about filter_words                                               *)

\* Word w satisfies fact f, in the contract's words.
Satisfies(w, f) ==
    CASE f.feedback = "Correct" -> w[f.position + 1] = f.letter
      [] f.feedback = "Used"    ->
            /\ w[f.position + 1] # f.letter
            /\ \E j \in 1..WORD_LENGTH : w[j] = f.letter
      [] f.feedback = "NotUsed" -> \A j \in 1..WORD_LENGTH : w[j] # f.letter

\* The indices of the words of ws that satisfy every fact of fs.
Consistent(ws, fs) ==
    {i \in 1..Len(ws) : \A k \in 1..Len(fs) : Satisfies(ws[i], fs[k])}

\* C4: filter_words returns exactly the words that satisfy every fact, as a
\* subsequence that keeps the order of the input list.
C4_FilterExact ==
    pc = "filtered" =>
        LET idx == Consistent(words, facts) IN
        /\ Len(filtered) = Cardinality(idx)
        /\ \A k \in 1..Len(filtered) : filtered[k] = words[Nth(idx, k)]

\* The filter has dropped a word from the middle of the list and kept words
\* on both sides of it, under a Used fact.
C4_Witness ==
    /\ pc = "filtered"
    /\ Len(words) = 3
    /\ filtered = <<words[1], words[3]>>
    /\ words[1] # words[3]
    /\ \E k \in 1..Len(facts) : facts[k].feedback = "Used"

-----------------------------------------------------------------------------
(* Claims about best_guess                                                 *)

Distinct(ws) == \A i, j \in 1..Len(ws) : i # j => ws[i] # ws[j]

Returned == pc \in {"done", "panic", "overflow"}

\* cost(g) of the contract for the i-th candidate: 1 + the sum over every
\* candidate w of best_guess(candidates, facts joined with check(w, g)).guesses
CostOf(cands, fs, i) ==
    1 + SumTo([k \in 1..Len(cands) |->
                  best_guess(cands, check(cands[k], cands[i]) \o fs).gr.guesses],
              Len(cands))

Costs(cands, fs) == [i \in 1..Len(cands) |-> CostOf(cands, fs, i)]

\* The first index at which the sequence of numbers c is least.
FirstMin(c) ==
    CHOOSE i \in 1..Len(c) :
        /\ \A j \in 1..Len(c) : c[i] <= c[j]
        /\ \A j \in 1..(i - 1) : c[j] > c[i]

\* The returned guess is a candidate, its guesses is that candidate's cost,
\* and no candidate costs less.
MinCostResult ==
    LET c == Costs(candidates, facts) IN
    /\ pc = "done"
    /\ \E i \in 1..Len(candidates) :
          /\ result.guess = candidates[i]
          /\ result.guesses = c[i]
    /\ \A j \in 1..Len(candidates) : c[j] >= result.guesses

\* C1, as stated: for every word list and fact set that leave at least 2
\* candidates, best_guess returns a candidate of minimal cost with that cost.
C1_Original == (Returned /\ Len(candidates) >= 2) => MinCostResult

\* C1, amended: the same for every word list and fact set that leave at
\* least 2 candidates no two of which are the same word.
C1_MinCost ==
    (Returned /\ Len(candidates) >= 2 /\ Distinct(candidates)) => MinCostResult

\* best_guess has returned from a search over three candidates whose costs
\* are not all the same.
C1_Witness ==
    /\ pc = "done"
    /\ Len(candidates) = 3
    /\ \E i \in 1..3 : CostOf(candidates, facts, i) > result.guesses

\* C2: among the candidates of minimal cost best_guess returns the first in
\* candidate order, in every order of the cost evaluations and every
\* grouping of the reduction; so the result is a function of (words, facts).
C2_FirstMinWins ==
    (pc = "done" /\ Len(candidates) >= 2) =>
        LET c == Costs(candidates, facts)
            m == FirstMin(c)
        IN result = GuessResult(candidates[m], c[m], Len(candidates))

\* Two different candidates share the minimal cost, neither is the first of
\* the list, and best_guess has returned the earlier one.
C2_Witness ==
    /\ pc = "done"
    /\ Len(candidates) >= 3
    /\ LET c == Costs(candidates, facts) IN
        \E i, j \in 2..Len(candidates) :
          /\ i < j
          /\ candidates[i] # candidates[j]
          /\ c[i] = c[j]
          /\ \A k \in 1..Len(candidates) : c[k] >= c[i]
          /\ c[1] > c[i]
          /\ result.guess = candidates[i]

\* The number of guesses that find secret w when g is guessed next under
\* facts fs and every later guess is the word best_guess returns for the
\* facts gathered by then.
RECURSIVE Play(_, _, _)
Play(w, g, fs) ==
    IF g = w THEN 1
    ELSE LET nf == check(w, g) \o fs IN
         1 + Play(w, best_guess(words, nf).gr.guess, nf)

\* C3: for distinct words, the guesses value returned is the number of
\* guesses needed, summed over the secrets consistent with the facts, when
\* the returned word is guessed next and best_guess picks every later guess.
C3_TotalGuesses ==
    (pc = "done" /\ Distinct(words)) =>
        result.guesses =
            SumTo([k \in 1..Len(candidates) |->
                      Play(candidates[k], result.guess, facts)],
                  Len(candidates))

\* C6: when the top-level call has a candidate, no nested call reaches the
\* abort of the empty candidate list: every candidate secret w satisfies the
\* facts of check(w, g) joined with the facts at hand.
C6_NoNestedAbort ==
    /\ pc = "panic" => filter_words(words, facts) = <<>>
    /\ pc # "idle" =>
          \A i, j \in 1..Len(candidates) :
              \E k \in 1..Len(candidates) :
                  /\ candidates[k] = candidates[i]
                  /\ \A f \in 1..Len(facts) : Satisfies(candidates[k], facts[f])
                  /\ \A f \in 1..WORD_LENGTH :
                        Satisfies(candidates[k],
                                  check(candidates[i], candidates[j])[f])

\* A search three frames deep has returned: nested calls, and calls nested
\* in them, have all found a candidate.
C6_Witness ==
    /\ pc = "done"
    /\ Len(candidates) >= 3
    /\ maxdepth >= 3

\* C7: when the facts exclude every word, best_guess aborts and returns no
\* GuessResult.
C7_EmptyAborts ==
    (pc # "idle" /\ filter_words(words, facts) = <<>>) =>
        /\ pc = "panic"
        /\ result = NoResult
        /\ parts = <<>>

\* best_guess was called with facts that exclude all of three words, and has
\* aborted.
C7_Witness ==
    /\ pc = "panic"
    /\ Len(words) = 3
    /\ facts # <<>>
    /\ \A i \in 1..3 : \E f \in 1..Len(facts) : ~Satisfies(words[i], facts[f])

\* C8: with exactly one candidate best_guess returns it with guesses = 1 and
\* num_candidates = 1, having run no cost evaluation and no recursive call.
C8_Singleton ==
    (pc # "idle" /\ Cardinality(Consistent(words, facts)) = 1) =>
        /\ pc = "done"
        /\ result =
              GuessResult(words[Nth(Consistent(words, facts), 1)], 1, 1)
        /\ parts = <<>>
        /\ maxdepth = 1

\* best_guess has returned the one word of three that the facts leave.
C8_Witness ==
    /\ pc = "done"
    /\ Len(words) = 3
    /\ Len(candidates) = 1
    /\ result.guess = candidates[1]

\* C10: for pairwise-distinct words and facts that leave a candidate, every
\* nested call works on a proper sublist of its caller's candidates (without
\* the guess g when g is not the secret, the secret alone when it is), the
\* search returns, and it is never deeper than the number of candidates.
C10_Shrinks ==
    (pc # "idle" /\ Distinct(words) /\ candidates # <<>>) =>
        /\ pc # "overflow"
        /\ maxdepth <= Len(candidates)
        /\ \A i, j \in 1..Len(candidates) :
              LET w == candidates[i]
                  g == candidates[j]
                  sub == filter_words(candidates, check(w, g) \o facts)
              IN IF g = w THEN sub = <<w>>
                 ELSE /\ \A k \in 1..Len(sub) : sub[k] # g
                      /\ \E k \in 1..Len(sub) : sub[k] = w
                      /\ Len(sub) < Len(candidates)

\* A search over three distinct candidates has returned after going as deep
\* as the number of candidates allows.
C10_Witness ==
    /\ pc = "done"
    /\ Distinct(words)
    /\ Len(candidates) = 3
    /\ maxdepth = 3

-----------------------------------------------------------------------------
(* Claims about solve                                                      *)

SolveReturned == pc \in {"solved", "panic", "overflow"}

\* One GuessResult per opening guess, in order, each with the cost of the
\* guess as a first guess over words.
RankedByCost ==
    /\ pc = "solved"
    /\ Len(ranking) = Len(guess_words)
    /\ \A i \in 1..Len(guess_words) :
          /\ ranking[i].guess = guess_words[i]
          /\ ranking[i].guesses =
                1 + SumTo([k \in 1..Len(words) |->
                              best_guess(words,
                                  check(words[k], guess_words[i])).gr.guesses],
                          Len(words))

\* The first entry of least guesses of solve(words, words) has the guess
\* and the guesses of best_guess(words, no facts).
AgreesWithBestGuess ==
    (guess_words = words /\ Len(words) >= 2 /\ Distinct(words)) =>
        LET m == FirstMin([i \in 1..Len(ranking) |-> ranking[i].guesses])
            bg == best_guess(words, <<>>).gr
        IN /\ ranking[m].guess = bg.guess
           /\ ranking[m].guesses = bg.guesses

\* C9, as stated: solve(words, guesses) returns one GuessResult per guess,
\* in order, with the cost of that guess; and over at least 2 distinct words
\* the first least entry of solve(words, words) agrees with best_guess.
C9_Original == SolveReturned => (RankedByCost /\ AgreesWithBestGuess)

\* C9, amended: the same for every list of pairwise-distinct words.
C9_Ranking ==
    (SolveReturned /\ Distinct(words)) =>
        (RankedByCost /\ AgreesWithBestGuess)

\* solve has ranked a list of three distinct words against itself, and the
\* first entry is not the cheapest.
C9_Witness ==
    /\ pc = "solved"
    /\ Len(words) = 3
    /\ Distinct(words)
    /\ guess_words = words
    /\ \E i \in 2..3 : ranking[i].guesses < ranking[1].guesses

====
